---- MODULE Spec2Model ----
(***************************************************************************)
(* A state-machine model of seqkit's BAM toolbox                           *)
(* (src/seqkit/cmd/bam_toolbox.go): the orchestrator BamToolbox, the       *)
(* Reader / Sink / Writer goroutines, the stages AlnContext, AccStats and  *)
(* help, and the channels that connect them.                               *)
(*                                                                         *)
(* Records are pointers in the source; here a record is its index in the   *)
(* input stream and its fields are looked up in input.recs.  float64       *)
(* values are modelled as exact rationals <<n, d>> extended with the IEEE  *)
(* special values (d = 0); rounding of the mantissa is not modelled.       *)
(***************************************************************************)
EXTENDS Integers, Sequences, FiniteSets, TLC

(* ---------------------------------------------------------------- bounds *)

\* Longest input stream (number of records before EOF or the decode error).
MaxRecs == 3

\* Longest list of top-level keys of a configuration document.
MaxKeys == 3

\* Capacity of the record channels; 5000 in the source (line 161), scaled.
chanCap == 1

\* The I/O buffer size, which NewBamWriterChan also uses as the capacity of
\* its channel (line 121); 1024 * 128 in the source (line 162), scaled.
ioBuff == 3

\* Longest input stream of the runs that fill the channels.
MaxStream == 7

\* Most input files of a rename run, and most records of one file.
MaxFiles == 2
MaxFileRecs == 3

(* ------------------------------------------------------------ arithmetic *)

Abs(x) == IF x < 0 THEN -x ELSE x

\* The greatest common divisor of a >= 0 and b > 0.
Gcd(a, b) ==
    LET D == {g \in 1..b : a % g = 0 /\ b % g = 0}
    IN  CHOOSE g \in D : \A h \in D : h <= g

\* float64 values: <<n, d>> with d > 0 in lowest terms is the number n/d;
\* <<0, 0>> is NaN, <<1, 0>> is +Inf, <<-1, 0>> is -Inf.
NaN == <<0, 0>>
PosInf == <<1, 0>>
NegInf == <<-1, 0>>

Sign(x) == IF x > 0 THEN 1 ELSE IF x < 0 THEN -1 ELSE 0

Reduced(n, d) ==
    IF d = 0 THEN <<Sign(n), 0>>
    ELSE LET g == Gcd(Abs(n), Abs(d))
             s == IF d < 0 THEN -1 ELSE 1
         IN  <<(s * n) \div g, (s * d) \div g>>

\* n/d as a float64 value (n and d are evaluated once, then reduced).
Norm(n, d) == CHOOSE q \in {Reduced(a, b) : a \in {n}, b \in {d}} : TRUE

\* float64(i)
Float(i) == <<i, 1>>

IsNaN(x) == x = NaN
IsInf(x) == x[2] = 0 /\ x[1] # 0
IsFin(x) == x[2] # 0

FAdd(x, y) ==
    IF IsNaN(x) \/ IsNaN(y) THEN NaN
    ELSE IF IsInf(x) /\ IsInf(y) THEN (IF x = y THEN x ELSE NaN)
    ELSE IF IsInf(x) THEN x
    ELSE IF IsInf(y) THEN y
    ELSE Norm(x[1] * y[2] + y[1] * x[2], x[2] * y[2])

FNeg(x) == <<-x[1], x[2]>>

FSub(x, y) == FAdd(x, FNeg(y))

FMul(x, y) ==
    IF IsNaN(x) \/ IsNaN(y) THEN NaN
    ELSE IF IsInf(x) \/ IsInf(y)
         THEN Norm(Sign(x[1]) * Sign(y[1]), 0)
    ELSE Norm(x[1] * y[1], x[2] * y[2])

FDiv(x, y) ==
    IF IsNaN(x) \/ IsNaN(y) THEN NaN
    ELSE IF IsInf(x) /\ IsInf(y) THEN NaN
    ELSE IF IsInf(x) THEN (IF y[1] < 0 THEN FNeg(x) ELSE x)
    ELSE IF IsInf(y) THEN Float(0)
    ELSE IF y[1] = 0 THEN Norm(Sign(x[1]), 0)
    ELSE Norm(x[1] * y[2], x[2] * y[1])

\* fmt.Sprintf("%.3f", x): x rounded to thousandths (half away from zero),
\* kept as the number of thousandths; the special values print as themselves.
Fmt3(x) ==
    IF ~IsFin(x) THEN x
    ELSE LET a == Abs(x[1]) * 1000
             q == (2 * a + x[2]) \div (2 * x[2])
         IN  <<Sign(x[1]) * q, 1000>>

(* --------------------------------------------------------------- records *)

\* CIGAR operations are <<type, length>>; the types are those of the SAM format.
Cigar10Eq == << <<"=", 10>> >>
CigarMixed == << <<"M", 5>>, <<"I", 3>>, <<"X", 5>>, <<"D", 7>>, <<"N", 4>>, <<"S", 2>> >>
CigarClip == << <<"S", 5>> >>

\* The NM auxiliary tag: absent, or present with a value of some type.
TagInt(v) == [present |-> TRUE, integer |-> TRUE, val |-> v]
TagNone == [present |-> FALSE, integer |-> FALSE, val |-> 0]
TagFloat == [present |-> TRUE, integer |-> FALSE, val |-> 0]

Rec(pos, end, unmapped, cigar, nm) ==
    [Pos |-> pos, End |-> end, Unmapped |-> unmapped, Cigar |-> cigar, NM |-> nm]

\* The records an input stream is drawn from.  With the reference, shifts and
\* patterns below: a start window at 0 matches RegexStart, an end window at 2
\* matches RegexEnd, a window at 5 runs past the contig's end.
RecPass == Rec(1, 3, FALSE, Cigar10Eq, TagInt(1))
RecPass2 == Rec(1, 3, FALSE, CigarMixed, TagInt(5))
RecUnmapped == Rec(1, 3, TRUE, <<>>, TagNone)
RecStartHit == Rec(0, 3, FALSE, Cigar10Eq, TagInt(1))
RecEndHit == Rec(1, 2, FALSE, Cigar10Eq, TagInt(1))
RecStartOob == Rec(5, 3, FALSE, Cigar10Eq, TagInt(1))
RecEndOob == Rec(1, 5, FALSE, Cigar10Eq, TagInt(1))
RecStartHitEndOob == Rec(0, 5, FALSE, Cigar10Eq, TagInt(1))
RecLenZero == Rec(1, 3, FALSE, CigarClip, TagInt(0))
RecNoTag == Rec(1, 3, FALSE, Cigar10Eq, TagNone)
RecBadTag == Rec(1, 3, FALSE, Cigar10Eq, TagFloat)

PipeRecs == {RecPass, RecUnmapped, RecStartHit}

SeqsUpTo(S, n) == UNION {[1..m -> S] : m \in 0..n}

\* An input stream: its records, and how the decoder's last Read ends.
Inputs(S) == [recs : SeqsUpTo(S, MaxRecs), end : {"eof", "err"}]

(* ------------------------------------------------------- reference index *)

\* The one contig of the indexed reference.
RefSeq == <<"A", "C", "G", "T", "A", "C">>

\* faidx.SubSeq, of the fai package: the half-open window [start, end) of
\* the contig, or an error when the window is not within the contig.
SubSeqOf(start, end) ==
    IF 0 <= start /\ start <= end /\ end <= Len(RefSeq)
    THEN [err |-> FALSE, b |-> SubSeq(RefSeq, start + 1, end)]
    ELSE [err |-> TRUE, b |-> <<>>]

IdxSubSeq(start, end) == SubSeqOf(start, end)

\* regexp.MatchString for a pattern of literal characters: the pattern
\* occurs somewhere in the string.
MatchString(pat, s) ==
    \E i \in 0..(Len(s) - Len(pat)) : SubSeq(s, i + 1, i + Len(pat)) = pat

(* ------------------------------------------------------------ AlnContext *)

\* What one iteration of AlnContext's loop does with record r under the
\* stage parameters p: "fatal" (checkError exits), "drop" (continue) or
\* "forward" (send on OutChan).
AlnStartStep(r, p) ==
    IF p.regStart = <<>> THEN "next"
    ELSE LET s == IdxSubSeq(r.Pos + p.leftShift, r.Pos + p.rightShift)
         IN  IF s.err THEN "fatal"
             ELSE IF MatchString(p.regStart, s.b) THEN "drop" ELSE "next"

AlnEndStep(r, p) ==
    IF p.regEnd = <<>> THEN "forward"
    ELSE LET s == IdxSubSeq(r.End + p.leftShift, r.End + p.rightShift)
         IN  IF s.err THEN "fatal"
             ELSE IF MatchString(p.regEnd, s.b) THEN "drop" ELSE "forward"

\* A variant that decides on the start flank alone.
AlnDecideStartOnly(r, p) ==
    LET a == AlnStartStep(r, p)
    IN  IF a = "next" THEN "forward" ELSE a

AlnDecide(r, p) ==
    LET a == AlnStartStep(r, p)
    IN  IF a = "next" THEN AlnEndStep(r, p) ELSE a

(* -------------------------------------------------------------- AccStats *)

GetSamMapped(r) == ~r.Unmapped

RECURSIVE CigarSum(_, _)
CigarSum(cigar, types) ==
    IF cigar = <<>> THEN 0
    ELSE (IF Head(cigar)[1] \in types THEN Head(cigar)[2] ELSE 0)
         + CigarSum(Tail(cigar), types)

\* A variant whose aligned length leaves the deletions out.
GetSamAlnDetailsNoDel(r) ==
    IF ~r.NM.present \/ ~r.NM.integer
    THEN [panic |-> TRUE, Len |-> 0, Acc |-> NaN, WAcc |-> NaN]
    ELSE LET len == CigarSum(r.Cigar, {"M", "=", "X", "I"})
             acc == FMul(FSub(Float(1), FDiv(Float(r.NM.val), Float(len))),
                         Float(100))
         IN  [panic |-> FALSE, Len |-> len, Acc |-> acc,
              WAcc |-> FMul(acc, Float(len))]

\* A variant that reads a missing or non-integer tag as zero.
GetSamAlnDetailsLenient(r) ==
    LET len == CigarSum(r.Cigar, {"M", "=", "X", "I", "D"})
        e == IF r.NM.present /\ r.NM.integer THEN r.NM.val ELSE 0
        acc == FMul(FSub(Float(1), FDiv(Float(e), Float(len))), Float(100))
    IN  [panic |-> FALSE, Len |-> len, Acc |-> acc, WAcc |-> FMul(acc, Float(len))]

\* GetSamAlnDetails: panics on a missing or non-integer NM tag.
GetSamAlnDetails(r) ==
    IF ~r.NM.present \/ ~r.NM.integer
    THEN [panic |-> TRUE, Len |-> 0, Acc |-> NaN, WAcc |-> NaN]
    ELSE LET mm == CigarSum(r.Cigar, {"M", "=", "X"})
             ins == CigarSum(r.Cigar, {"I"})
             del == CigarSum(r.Cigar, {"D"})
             len == mm + ins + del
             acc == FMul(FSub(Float(1), FDiv(Float(r.NM.val), Float(len))),
                         Float(100))
         IN  [panic |-> FALSE, Len |-> len, Acc |-> acc,
              WAcc |-> FMul(acc, Float(len))]

\* The accumulators of one AccStats run.
AccZero == [totalLen |-> 0, accSum |-> Float(0), wAccSum |-> Float(0), nr |-> 0]

\* A variant that counts every record, mapped or not.
AccAddCountsAll(a, r) ==
    IF GetSamMapped(r)
    THEN LET info == GetSamAlnDetails(r)
         IN  [totalLen |-> a.totalLen + info.Len,
              accSum |-> FAdd(a.accSum, info.Acc),
              wAccSum |-> FAdd(a.wAccSum, info.WAcc),
              nr |-> a.nr + 1]
    ELSE [a EXCEPT !.nr = @ + 1]

AccAdd(a, r) ==
    IF GetSamMapped(r)
    THEN LET info == GetSamAlnDetails(r)
         IN  [totalLen |-> a.totalLen + info.Len,
              accSum |-> FAdd(a.accSum, info.Acc),
              wAccSum |-> FAdd(a.wAccSum, info.WAcc),
              nr |-> a.nr + 1]
    ELSE a

\* The two means and the line written to the summary destination.
AccSummary(a) ==
    LET WeightedAcc == FDiv(a.wAccSum, Float(a.totalLen))
        MeanAcc == FDiv(a.accSum, Float(a.nr))
    IN  [MeanAcc |-> MeanAcc, WeightedAcc |-> WeightedAcc,
         line |-> <<Fmt3(MeanAcc), Fmt3(WeightedAcc)>>]

(* -------------------------------------------------------------- registry *)

\* NewToolshed: the registered stages.
NewToolshed == {"AlnContext", "AccStats", "help"}

\* The entry of a registered stage: its Name and Desc.
ShedEntry(t) ==
    [Name |-> t,
     Desc |-> CASE t = "AlnContext" ->
                     "filter records by the sequence context at start and end"
                [] t = "AccStats" ->
                     "calculates mean accuracy weighted by aligment lengths"
                [] t = "help" -> "list all tools with description"]

\* The bytes of the registered names.
Bytes(t) ==
    CASE t = "AlnContext" -> <<65, 108, 110, 67, 111, 110, 116, 101, 120, 116>>
      [] t = "AccStats" -> <<65, 99, 99, 83, 116, 97, 116, 115>>
      [] t = "help" -> <<104, 101, 108, 112>>

RECURSIVE LexLess(_, _)
LexLess(a, b) ==
    IF b = <<>> THEN FALSE
    ELSE IF a = <<>> THEN TRUE
    ELSE IF Head(a) # Head(b) THEN Head(a) < Head(b)
    ELSE LexLess(Tail(a), Tail(b))

\* A variant that orders the strings downwards.
StrGreater(a, b) == LexLess(Bytes(b), Bytes(a))

\* The order of sort.Strings: byte-wise lexicographic.
StrLess(a, b) == LexLess(Bytes(a), Bytes(b))

RECURSIVE InsertSorted(_, _)
InsertSorted(t, sorted) ==
    IF sorted = <<>> THEN <<t>>
    ELSE IF StrLess(t, Head(sorted)) THEN <<t>> \o sorted
    ELSE <<Head(sorted)>> \o InsertSorted(t, Tail(sorted))

\* sort.Strings(tools).
RECURSIVE SortStrings(_)
SortStrings(tools) ==
    IF tools = <<>> THEN <<>>
    ELSE InsertSorted(Head(tools), SortStrings(Tail(tools)))

\* The orders in which a range loop may visit the keys of the registry.
RangeOrders ==
    {o \in [1..Cardinality(NewToolshed) -> NewToolshed] :
        \A i, j \in DOMAIN o : o[i] = o[j] => i = j}

\* Toolshed.String, the keys having been visited in the order given: two
\* header lines, then a line <<Name, Desc>> per name of the sorted list.
ToolshedString(order) ==
    LET tools == SortStrings(order)
    IN  <<<<"Tool", "Description">>, <<"----", "-----------">>>>
        \o [i \in DOMAIN tools |->
               <<ShedEntry(tools[i]).Name, ShedEntry(tools[i]).Desc>>]

\* The reserved top-level keys.
paramFields == {"Sink"}

(* ---------------------------------------------------------- configuration *)

Keys == {"AlnContext", "AccStats", "help", "Sink", "Bogus"}

IsInjective(s) == \A i, j \in DOMAIN s : s[i] = s[j] => i = j

\* The key lists a document can have: the keys of a mapping are distinct.
KeyLists(n) == {s \in SeqsUpTo(Keys, n) : IsInjective(s)}

\* The parameter sub-section of AlnContext: Ref, LeftShift and RightShift are
\* present; RegexStart and RegexEnd are optional (<<>> when absent).
AlnParams(rs, re) ==
    [leftShift |-> 0, rightShift |-> 2, regStart |-> rs, regEnd |-> re]

PatStart == <<"A", "C">>
PatEnd == <<"G", "T">>

\* A configuration: the top-level keys of the document given (ty), the keys
\* of the document named by its Yaml key (file), the value of Sink, the
\* sub-section of AlnContext and the Tsv value of AccStats ("" when absent);
\* outFile is the output destination of the command line, "-" by default.
Config(ty, file, sink, aln, tsv) ==
    [ty |-> ty, file |-> file, Sink |-> sink, AlnContext |-> aln, Tsv |-> tsv,
     outFile |-> "-"]

\* The named destinations that exist before the run.
ExistingFiles == {"old.bam"}

\* All chains of up to MaxKeys keys, with the patterns of both sides set.
PipeConfigs ==
    {Config(ty, <<>>, FALSE, AlnParams(PatStart, PatEnd), "-") :
        ty \in KeyLists(MaxKeys)}
    \cup {Config(ty, <<>>, TRUE, AlnParams(PatStart, PatEnd), "-") :
        ty \in {s \in KeyLists(MaxKeys) : \E i \in DOMAIN s : s[i] = "Sink"}}
    \cup {Config(<<"Yaml">>, file, TRUE, AlnParams(PatStart, PatEnd), "-") :
        file \in {<<>>, <<"AccStats">>, <<"Sink">>}}

(* ----------------------------------------------------------------- state *)

VARIABLES
    cfg,      \* the configuration of this run
    input,    \* the input stream of this run
    status,   \* of the process: running or ended, and the diagnostic
    main,     \* BamToolbox: its position and local variables
    chans,    \* the record channels made so far, by number (0 is nil)
    reader,   \* the goroutine of NewBamReaderChan
    term,     \* the goroutine of NewBamSinkChan or NewBamWriterChan
    stages,   \* the stage goroutines launched so far, in launch order
    out,      \* what the run has produced outside the process
    ren       \* the run of the rename command

vars == <<cfg, input, status, main, chans, reader, term, stages, out, ren>>

\* The nil channel (a channel variable that was never assigned).
NilChan == 0

\* The state of the process: running, or ended by log.Fatal or checkError
\* ("fatal"), by a Go panic ("panic") or by os.Exit(0) ("exit0"), with what
\* the diagnostic names.
StillRunning == [code |-> "running", diag |-> <<>>]

Ended(code, diag) == [code |-> code, diag |-> diag]

\* The rename command is not run.
RenameIdle ==
    [files |-> <<>>, pc |-> "idle", fi |-> 0, ri |-> 0,
     numbers |-> <<>>, newID |-> <<>>, outfh |-> <<>>]

MakeChan(cp) == [buf |-> <<>>, closed |-> FALSE, cap |-> cp]

InitWith(configs, inputs) ==
    /\ cfg \in configs
    /\ input \in inputs
    /\ status = StillRunning
    /\ main = [pc |-> "parse", tkeys |-> <<>>, clearKeys |-> <<>>, rank |-> 0,
               inChan |-> NilChan, lastOut |-> NilChan,
               nextIn |-> NilChan, nextOut |-> NilChan, doneChan |-> FALSE]
    /\ chans = <<>>
    /\ reader = [pc |-> "none", pos |-> 0, hold |-> 0, outChan |-> NilChan]
    /\ term = [kind |-> "none", pc |-> "none", outChan |-> NilChan, got |-> <<>>,
               head |-> "none"]
    /\ stages = <<>>
    /\ out = [written |-> <<>>, tsv |-> <<>>, files |-> {}, listing |-> <<>>]

Init == InitWith(PipeConfigs, Inputs(PipeRecs)) /\ ren = RenameIdle

Running == status.code = "running"

(* ---------------------------------------------------------- channel steps *)

CanSend(c) == c # NilChan /\ Len(chans[c].buf) < chans[c].cap

CanRecv(c) == c # NilChan /\ chans[c].buf # <<>>

\* A range loop over the channel ends: it is closed and drained.
AtEnd(c) == c # NilChan /\ chans[c].closed /\ chans[c].buf = <<>>

\* A variant that queues at the front.
SentFront(c, r) == [chans EXCEPT ![c].buf = <<r>> \o @]

Sent(c, r) == [chans EXCEPT ![c].buf = Append(@, r)]

Received(c) == [chans EXCEPT ![c].buf = Tail(@)]

Closed(c) == [chans EXCEPT ![c].closed = TRUE]

(* ------------------------------------------------------------ BamToolbox *)

\* Lines 145-173: the document is parsed and, when its first key is Yaml,
\* replaced by the document that key names.  ty[0] is read before the
\* emptiness switch, so an empty document panics (index out of range).
Parse ==
    /\ Running /\ main.pc = "parse"
    /\ IF cfg.ty = <<>>
       THEN status' = Ended("panic", <<"index out of range">>) /\ UNCHANGED main
       ELSE /\ main' = [main EXCEPT !.pc = "setup",
                           !.tkeys = IF cfg.ty[1] = "Yaml" THEN cfg.file ELSE cfg.ty]
            /\ UNCHANGED status
    /\ UNCHANGED <<cfg, input, chans, reader, term, stages, out>>
    /\ UNCHANGED ren

ClearKeys(tkeys) == SelectSeq(tkeys, LAMBDA k : k \notin paramFields)

\* A variant that asks for the key alone.
UseSinkKeyOnly(tkeys) == \E i \in DOMAIN tkeys : tkeys[i] = "Sink"

\* The terminal consumer is the Sink when Sink is a key with value true.
UseSink(tkeys) == (\E i \in DOMAIN tkeys : tkeys[i] = "Sink") /\ cfg.Sink

\* Lines 123-127: the Writer's destination is the standard output, or the
\* named file opened with os.Open, that is for reading only: the open fails
\* when the file does not exist.
WriterOpens(outFile) == outFile = "-" \/ outFile \in ExistingFiles

\* Whether writes to the destination can succeed: not on a descriptor
\* opened for reading only.
Writable(outFile) == outFile = "-"

\* Lines 174-195: unless the first key is help, the Reader and the terminal
\* consumer are made and their goroutines started; then the first fresh
\* output channel is made and the stage names are computed.
Setup ==
    /\ Running /\ main.pc = "setup"
    /\ IF main.tkeys = <<>>
       THEN /\ status' = Ended("panic", <<"index out of range">>)
            /\ UNCHANGED <<main, chans, reader, term>>
       ELSE LET open == main.tkeys[1] # "help"
                sink == UseSink(main.tkeys)
                made == IF open
                        THEN <<MakeChan(chanCap),
                               MakeChan(IF sink THEN chanCap ELSE ioBuff),
                               MakeChan(chanCap)>>
                        ELSE <<MakeChan(chanCap)>>
                ck == ClearKeys(main.tkeys)
            IN  IF open /\ ~sink /\ ~WriterOpens(cfg.outFile)
                THEN /\ status' = Ended("fatal", <<"Writer">>)
                     /\ chans' = <<MakeChan(chanCap)>>
                     /\ reader' = [reader EXCEPT !.pc = "read", !.outChan = 1]
                     /\ main' = [main EXCEPT !.inChan = 1]
                     /\ UNCHANGED term
                ELSE
                /\ chans' = made
                /\ reader' = IF open
                             THEN [reader EXCEPT !.pc = "read", !.outChan = 1]
                             ELSE reader
                /\ term' = IF open
                           THEN [term EXCEPT !.kind = IF sink THEN "sink" ELSE "writer",
                                             !.pc = "recv", !.outChan = 2,
                                             !.head = IF sink THEN "none" ELSE "input"]
                           ELSE term
                /\ main' = [main EXCEPT
                               !.pc = IF ck = <<>> THEN "wait" ELSE "loop",
                               !.clearKeys = ck,
                               !.inChan = IF open THEN 1 ELSE NilChan,
                               !.lastOut = IF open THEN 2 ELSE NilChan,
                               !.doneChan = open,
                               !.nextIn = IF open THEN 1 ELSE NilChan,
                               !.nextOut = Len(made)]
                /\ UNCHANGED status
    /\ UNCHANGED <<cfg, input, stages, out>>
    /\ UNCHANGED ren

\* A variant that numbers the stages from one.
NewStageFromOne(tool, inCh, outCh, rank) ==
    [name |-> tool, Yaml |-> tool, InChan |-> inCh, OutChan |-> outCh,
     Rank |-> rank + 1, pc |-> "init", hold |-> 0, acc |-> AccZero,
     got |-> <<>>, sent |-> <<>>, dropped |-> {}, closes |-> 0]

\* The goroutine started for a stage, with its BamToolParams.
NewStage(tool, inCh, outCh, rank) ==
    [name |-> tool, Yaml |-> tool, InChan |-> inCh, OutChan |-> outCh,
     Rank |-> rank, pc |-> "init", hold |-> 0, acc |-> AccZero,
     got |-> <<>>, sent |-> <<>>, dropped |-> {}, closes |-> 0]

\* The output channel given to the stage of this rank.
StageOut(rank, nkeys, nextOut, lastOut) ==
    IF rank = nkeys - 1 THEN lastOut ELSE nextOut

\* Lines 196-219: one iteration of the launch loop.
Launch ==
    /\ Running /\ main.pc = "loop"
    /\ LET tool == main.clearKeys[main.rank + 1]
           n == Len(main.clearKeys)
           o == StageOut(main.rank, n, main.nextOut, main.lastOut)
       IN  IF tool \notin NewToolshed
           THEN /\ status' = Ended("fatal", <<"Unknown tool:", tool>>)
                /\ UNCHANGED <<main, chans, stages>>
           ELSE /\ stages' = Append(stages, NewStage(tool, main.nextIn, o, main.rank))
                /\ chans' = Append(chans, MakeChan(chanCap))
                /\ main' = [main EXCEPT !.nextIn = o,
                                        !.nextOut = Len(chans) + 1,
                                        !.rank = @ + 1,
                                        !.pc = IF main.rank + 1 = n THEN "wait" ELSE "loop"]
                /\ UNCHANGED status
    /\ UNCHANGED <<cfg, input, reader, term, out>>
    /\ UNCHANGED ren

\* Line 220: the receive from doneChan meets the terminal consumer's send
\* (the channel is unbuffered); a nil doneChan blocks for ever.
Complete ==
    /\ Running /\ main.pc = "wait" /\ main.doneChan
    /\ term.pc = "signal"
    /\ main' = [main EXCEPT !.pc = "returned"]
    /\ term' = [term EXCEPT !.pc = "done"]
    /\ UNCHANGED <<cfg, input, status, chans, reader, stages, out>>
    /\ UNCHANGED ren

(* ---------------------------------------------------------------- Reader *)

\* Lines 92-100: one Read.  At EOF the channel is closed and the goroutine
\* returns; on another error the channel is closed first and checkError is
\* called after.
ReaderRead ==
    /\ Running /\ reader.pc = "read"
    /\ IF reader.pos < Len(input.recs)
       THEN /\ reader' = [reader EXCEPT !.pc = "send", !.pos = @ + 1, !.hold = reader.pos + 1]
            /\ UNCHANGED chans
       ELSE /\ chans' = Closed(reader.outChan)
            /\ reader' = [reader EXCEPT !.pc = IF input.end = "eof" THEN "done" ELSE "checkError"]
    /\ UNCHANGED <<cfg, input, status, main, term, stages, out>>
    /\ UNCHANGED ren

\* Line 100 after a decode error: checkError exits the process.
ReaderFatal ==
    /\ Running /\ reader.pc = "checkError"
    /\ status' = Ended("fatal", <<"Reader">>)
    /\ UNCHANGED <<cfg, input, main, chans, reader, term, stages, out>>
    /\ UNCHANGED ren

\* Line 101.
ReaderSend ==
    /\ Running /\ reader.pc = "send" /\ CanSend(reader.outChan)
    /\ chans' = Sent(reader.outChan, reader.hold)
    /\ reader' = [reader EXCEPT !.pc = "read", !.hold = 0]
    /\ UNCHANGED <<cfg, input, status, main, term, stages, out>>
    /\ UNCHANGED ren

(* ------------------------------------------------------- Sink and Writer *)

\* Lines 111-113 and 132-135: the terminal consumer takes a record; the
\* Sink discards it, the Writer encodes it to the output.  On a destination
\* that cannot be written, the record either stays in the encoder's and the
\* buffered writer's memory (no error yet) or, those being full, the failed
\* write of the descriptor comes back from w.Write and checkError exits.
TermRecv ==
    /\ Running /\ term.pc = "recv" /\ CanRecv(term.outChan)
    /\ LET r == Head(chans[term.outChan].buf)
       IN  /\ term' = [term EXCEPT !.got = Append(@, r)]
           /\ IF term.kind = "writer" /\ Writable(cfg.outFile)
              THEN out' = [out EXCEPT !.written = Append(@, r)] /\ UNCHANGED status
              ELSE IF term.kind = "writer"
              THEN /\ UNCHANGED out
                   /\ \/ UNCHANGED status
                      \/ status' = Ended("fatal", <<"Writer">>)
              ELSE UNCHANGED <<out, status>>
    /\ chans' = Received(term.outChan)
    /\ UNCHANGED <<cfg, input, main, reader, stages>>
    /\ UNCHANGED ren

\* The range loop ends; for the Writer, lines 136-138 follow: w.Close(),
\* bio.Flush() and fh.Close(), whose errors are not looked at, so what a
\* destination that cannot be written has not received is lost.  The next
\* step is the send on doneChan.
TermEnd ==
    /\ Running /\ term.pc = "recv" /\ AtEnd(term.outChan)
    /\ term' = [term EXCEPT !.pc = "signal"]
    /\ UNCHANGED <<cfg, input, status, main, chans, reader, stages, out>>
    /\ UNCHANGED ren

(* ---------------------------------------------------------------- stages *)

IsStage(k, name, pc) ==
    /\ Running /\ k \in DOMAIN stages
    /\ stages[k].name = name /\ stages[k].pc = pc

RecOf(i) == input.recs[i]

\* A send on a stage's output channel (lines 270 and 338): it panics on a
\* closed channel and blocks while the channel is full (or nil).
StageSend(k) ==
    LET c == stages[k].OutChan
    IN  /\ CanSend(c)
        /\ IF chans[c].closed
           THEN /\ status' = Ended("panic", <<"send on closed channel">>)
                /\ UNCHANGED <<chans, stages>>
           ELSE /\ chans' = Sent(c, stages[k].hold)
                /\ stages' = [stages EXCEPT ![k].pc = "recv", ![k].hold = 0,
                                            ![k].sent = Append(@, stages[k].hold)]
                /\ UNCHANGED status
        /\ UNCHANGED <<cfg, input, main, reader, term, out>>

\* close(p.OutChan) (lines 273 and 344): it panics on a nil or closed channel.
StageClose(k) ==
    LET c == stages[k].OutChan
    IN  IF c = NilChan \/ chans[c].closed
        THEN /\ status' = Ended("panic", <<"close of nil or closed channel">>)
             /\ UNCHANGED <<chans, stages>>
        ELSE /\ chans' = Closed(c)
             /\ stages' = [stages EXCEPT ![k].pc = "done", ![k].closes = @ + 1]
             /\ UNCHANGED status

\* A variant in which the loop ends as soon as the channel is empty.
LoopEndsWhenEmpty(c) == c # NilChan /\ chans[c].buf = <<>>

\* Whether the range loop of a stage (lines 250 and 330) ends here.
LoopEnds(c) == AtEnd(c)

\* Lines 231-248: the parameters are read and the reference index is built
\* or loaded (its sidecar file is created when absent).
AlnInit(k) ==
    /\ IsStage(k, "AlnContext", "init")
    /\ stages' = [stages EXCEPT ![k].pc = "recv"]
    /\ out' = [out EXCEPT !.files = @ \cup {"Ref.seqkit.fai"}]
    /\ UNCHANGED <<cfg, input, status, main, chans, reader, term>>
    /\ UNCHANGED ren

\* Lines 250-268: a record is received and its flanks are tested.
AlnRecv(k) ==
    /\ IsStage(k, "AlnContext", "recv")
    /\ CanRecv(stages[k].InChan)
    /\ LET r == Head(chans[stages[k].InChan].buf)
           d == AlnDecide(RecOf(r), cfg[stages[k].Yaml])
       IN  /\ chans' = Received(stages[k].InChan)
           /\ status' = IF d = "fatal" THEN Ended("fatal", <<"AlnContext">>) ELSE status
           /\ stages' = [stages EXCEPT
                 ![k].got = Append(@, r),
                 ![k].pc = IF d = "forward" THEN "send" ELSE "recv",
                 ![k].hold = IF d = "forward" THEN r ELSE 0,
                 ![k].dropped = IF d = "drop" THEN @ \cup {r} ELSE @]
    /\ UNCHANGED <<cfg, input, main, reader, term, out>>
    /\ UNCHANGED ren

\* Line 270.
AlnSend(k) ==
    /\ IsStage(k, "AlnContext", "send")
    /\ StageSend(k)
    /\ UNCHANGED ren

\* Line 273, reached when the loop over InChan ends.
AlnClose(k) ==
    /\ IsStage(k, "AlnContext", "recv")
    /\ LoopEnds(stages[k].InChan)
    /\ StageClose(k)
    /\ UNCHANGED <<cfg, input, main, reader, term, out>>
    /\ UNCHANGED ren

\* Lines 320-329: Tsv must be present; a destination other than "-" is created.
AccInit(k) ==
    /\ IsStage(k, "AccStats", "init")
    /\ IF cfg.Tsv = ""
       THEN /\ status' = Ended("fatal", <<"AccStats">>)
            /\ UNCHANGED <<stages, out>>
       ELSE /\ stages' = [stages EXCEPT ![k].pc = "recv"]
            /\ out' = IF cfg.Tsv # "-"
                      THEN [out EXCEPT !.files = @ \cup {cfg.Tsv}]
                      ELSE out
            /\ UNCHANGED status
    /\ UNCHANGED <<cfg, input, main, chans, reader, term>>
    /\ UNCHANGED ren

\* Lines 330-337: a record is received and, when mapped, accumulated;
\* GetSamAlnDetails may panic.
AccRecv(k) ==
    /\ IsStage(k, "AccStats", "recv")
    /\ CanRecv(stages[k].InChan)
    /\ LET r == Head(chans[stages[k].InChan].buf)
           bad == GetSamMapped(RecOf(r)) /\ GetSamAlnDetails(RecOf(r)).panic
       IN  /\ chans' = Received(stages[k].InChan)
           /\ status' = IF bad THEN Ended("panic", <<"NM tag">>) ELSE status
           /\ stages' = [stages EXCEPT
                 ![k].got = Append(@, r),
                 ![k].pc = IF bad THEN "recv" ELSE "send",
                 ![k].hold = IF bad THEN 0 ELSE r,
                 ![k].acc = IF bad THEN @ ELSE AccAdd(@, RecOf(r))]
    /\ UNCHANGED <<cfg, input, main, reader, term, out>>
    /\ UNCHANGED ren

\* Line 338.
AccSend(k) ==
    /\ IsStage(k, "AccStats", "send")
    /\ StageSend(k)
    /\ UNCHANGED ren

\* Lines 340-344, reached when the loop over InChan ends: the summary is
\* written, then the output channel is closed.
AccFinish(k) ==
    /\ IsStage(k, "AccStats", "recv")
    /\ LoopEnds(stages[k].InChan)
    /\ out' = [out EXCEPT !.tsv = Append(@,
                  [Rank |-> stages[k].Rank, dest |-> cfg.Tsv,
                   acc |-> stages[k].acc, after |-> stages[k].got,
                   sum |-> AccSummary(stages[k].acc)])]
    /\ StageClose(k)
    /\ UNCHANGED <<cfg, input, main, reader, term>>
    /\ UNCHANGED ren

\* Lines 225-228: the listing is written and the process exits with 0.
ListTools(k) ==
    /\ IsStage(k, "help", "init")
    /\ \E order \in RangeOrders :
          out' = [out EXCEPT !.listing = ToolshedString(order)]
    /\ status' = Ended("exit0", <<>>)
    /\ UNCHANGED <<cfg, input, main, chans, reader, term, stages>>
    /\ UNCHANGED ren

(* --------------------------------------------------------- specification *)

StageStep(k) ==
    \/ AlnInit(k) \/ AlnRecv(k) \/ AlnSend(k) \/ AlnClose(k)
    \/ AccInit(k) \/ AccRecv(k) \/ AccSend(k) \/ AccFinish(k)
    \/ ListTools(k)

Next ==
    \/ Parse \/ Setup \/ Launch \/ Complete
    \/ ReaderRead \/ ReaderFatal \/ ReaderSend
    \/ TermRecv \/ TermEnd
    \/ \E k \in 1..MaxKeys : StageStep(k)

Spec == Init /\ [][Next]_vars

(* ------------------------------------------- specifications of the stages *)

\* Runs that reach every step of the program, whatever the stage under study.
CoverConfigs ==
    {Config(ty, <<>>, FALSE, AlnParams(PatStart, PatEnd), "-") :
        ty \in {<<"help">>, <<"Bogus">>, <<"AlnContext", "AccStats">>}}

CoverInputs == {[recs |-> <<RecPass>>, end |-> e] : e \in {"eof", "err"}}

EofInputs(S) == [recs : SeqsUpTo(S, MaxRecs), end : {"eof"}]

\* AlnContext alone before the Sink, with each choice of configured patterns.
AlnRecs == {RecPass, RecStartHit, RecEndHit, RecStartOob, RecEndOob, RecStartHitEndOob}

AlnConfigs ==
    {Config(<<"AlnContext", "Sink">>, <<>>, TRUE, AlnParams(rs, re), "-") :
        rs \in {<<>>, PatStart}, re \in {<<>>, PatEnd}}

InitAln ==
    /\ \/ InitWith(AlnConfigs, EofInputs(AlnRecs))
       \/ InitWith(CoverConfigs, CoverInputs)
    /\ ren = RenameIdle

SpecAln == InitAln /\ [][Next]_vars

\* AccStats alone before the Sink or the Writer, with each kind of Tsv value.
AccRecs == {RecPass, RecPass2, RecUnmapped, RecLenZero, RecNoTag, RecBadTag}

AccConfigs ==
    {Config(<<"AccStats", "Sink">>, <<>>, sink, AlnParams(<<>>, <<>>), tsv) :
        sink \in BOOLEAN, tsv \in {"-", "acc.tsv", ""}}

InitAcc ==
    /\ \/ InitWith(AccConfigs, EofInputs(AccRecs))
       \/ InitWith(CoverConfigs, CoverInputs)
    /\ ren = RenameIdle

SpecAcc == InitAcc /\ [][Next]_vars

\* A stage before the Writer or the Sink, with each kind of destination.
WriterConfigs ==
    {[Config(ty, <<>>, sink, AlnParams(PatStart, PatEnd), "-")
         EXCEPT !.outFile = f] :
        ty \in {<<"AlnContext">>, <<"AccStats", "Sink">>,
                <<"AlnContext", "AccStats", "Sink">>},
        sink \in BOOLEAN, f \in {"-", "old.bam", "new.bam"}}

InitWriter ==
    /\ \/ InitWith(WriterConfigs, Inputs(PipeRecs))
       \/ InitWith(CoverConfigs, CoverInputs)
    /\ ren = RenameIdle

SpecWriter == InitWriter /\ [][Next]_vars

\* One stage before the Writer or the Sink, over streams long enough to
\* fill every channel.
CapConfigs ==
    {Config(<<"AccStats", "Sink">>, <<>>, sink, AlnParams(<<>>, <<>>), "-") :
        sink \in BOOLEAN}

CapInputs == {[recs |-> [i \in 1..n |-> RecPass], end |-> "eof"] : n \in 0..MaxStream}

InitCap ==
    /\ \/ InitWith(CapConfigs, CapInputs)
       \/ InitWith(CoverConfigs, CoverInputs)
    /\ ren = RenameIdle

SpecCap == InitCap /\ [][Next]_vars

(* ---------------------------------------------------------------- rename *)

\* The identifiers of the sequence records.
RenameIDs == {"X", "Y"}

\* An input file: the identifiers of its records in order; Qual tells
\* whether its records carry qualities (FASTQ) or not (FASTA).
RenameFiles == [ids : SeqsUpTo(RenameIDs, MaxFileRecs), Qual : BOOLEAN]

\* An identifier as written: the base and the number after the underscore
\* (0: no suffix).  var newID string starts as the empty string.
EmptyID == [base |-> "", n |-> 0]

\* fmt.Sprintf("%s_%d", record.ID, numbers[record.ID]).
SprintfID(id, n) == [base |-> id, n |-> n]

InitRename ==
    /\ InitWith({Config(<<"help">>, <<>>, FALSE, AlnParams(<<>>, <<>>), "-")},
                {[recs |-> <<>>, end |-> "eof"]})
    /\ ren \in {[RenameIdle EXCEPT !.files = fs, !.pc = "file",
                                   !.numbers = [id \in RenameIDs |-> 0],
                                   !.newID = EmptyID] :
                   fs \in SeqsUpTo(RenameFiles, MaxFiles)}

\* Lines 531-536: the next file is opened; numbers and newID are fresh.
RenameOpen ==
    /\ ren.pc = "file" /\ ren.fi < Len(ren.files)
    /\ ren' = [ren EXCEPT !.pc = "rec", !.fi = @ + 1, !.ri = 0,
                          !.numbers = [id \in RenameIDs |-> 0],
                          !.newID = EmptyID]
    /\ UNCHANGED <<cfg, input, status, main, chans, reader, term, stages, out>>

\* Lines 540-555: one record.  newID is assigned only when the identifier
\* was seen before; a record with qualities is written as FASTQ, and every
\* record is then written as FASTA.
RenameRecord ==
    /\ ren.pc = "rec" /\ ren.ri < Len(ren.files[ren.fi].ids)
    /\ LET f == ren.files[ren.fi]
           id == f.ids[ren.ri + 1]
           seen == ren.numbers[id] > 0
           n == IF seen THEN ren.numbers[id] + 1 ELSE 1
           newID == IF seen THEN SprintfID(id, n) ELSE ren.newID
           at == <<ren.fi, ren.ri + 1>>
           fastq == IF f.Qual
                    THEN <<[fmt |-> "fastq", ID |-> newID, src |-> at]>>
                    ELSE <<>>
           fasta == <<[fmt |-> "fasta", ID |-> newID, src |-> at]>>
       IN  ren' = [ren EXCEPT !.ri = @ + 1,
                              !.numbers = [@ EXCEPT ![id] = n],
                              !.newID = newID,
                              !.outfh = @ \o fastq \o fasta]
    /\ UNCHANGED <<cfg, input, status, main, chans, reader, term, stages, out>>

\* The reader's channel of the file is exhausted.
RenameEndFile ==
    /\ ren.pc = "rec" /\ ren.ri = Len(ren.files[ren.fi].ids)
    /\ ren' = [ren EXCEPT !.pc = "file"]
    /\ UNCHANGED <<cfg, input, status, main, chans, reader, term, stages, out>>

\* After the last file the command returns.
RenameReturn ==
    /\ ren.pc = "file" /\ ren.fi = Len(ren.files)
    /\ ren' = [ren EXCEPT !.pc = "done"]
    /\ UNCHANGED <<cfg, input, status, main, chans, reader, term, stages, out>>

RenameNext == RenameOpen \/ RenameRecord \/ RenameEndFile \/ RenameReturn

SpecRename == InitRename /\ [][RenameNext]_vars

(* ---------------------------------------------------------------- claims *)

Range(s) == {s[i] : i \in DOMAIN s}

Increasing(s) == \A i, j \in DOMAIN s : i < j => s[i] < s[j]

Filters == {k \in DOMAIN stages : stages[k].name = "AlnContext"}

Aggregators == {k \in DOMAIN stages : stages[k].name = "AccStats"}

\* The records the Reader has read so far, in the order read.
ReadSoFar == [i \in 1..reader.pos |-> i]

DroppedByFilter(r) == \E k \in Filters : r \in stages[k].dropped

Completed == term.pc \in {"signal", "done"}

\* C1: every record read by the Reader that no AlnContext stage drops is
\* delivered to the terminal consumer exactly once and in the order read, and
\* nothing is delivered that was not read: what the terminal consumer has
\* received is always an increasing sequence of read, undropped records, and
\* when its input has ended it is all of them.
C1_DeliveredOnceInOrder ==
    /\ Increasing(term.got)
    /\ \A r \in Range(term.got) : r \in Range(ReadSoFar) /\ ~DroppedByFilter(r)
    /\ Completed =>
          term.got = SelectSeq(ReadSoFar, LAMBDA r : ~DroppedByFilter(r))

C1_Witness ==
    /\ Completed /\ Len(stages) = 2 /\ Len(term.got) = 2
    /\ \E r \in 1..MaxRecs : DroppedByFilter(r)

\* The keys of the configuration the chain is built from.
ResolvedKeys ==
    IF cfg.ty # <<>> /\ cfg.ty[1] = "Yaml" THEN cfg.file ELSE cfg.ty

NonReserved == SelectSeq(ResolvedKeys, LAMBDA k : k # "Sink")

\* C2: for a configuration with at least one top-level key that names only
\* registered non-listing stages (the Sink-only configuration included) and
\* an error-free finite input, the run ends with BamToolbox returned: it
\* never stops anywhere else (under fair scheduling a finite run ends only
\* where no step is possible).
C2_RunReturns ==
    (/\ ResolvedKeys # <<>>
     /\ Range(NonReserved) \subseteq {"AlnContext", "AccStats"}
     /\ input.end = "eof" /\ cfg.Tsv # "")
    => (main.pc = "returned" \/ ENABLED Next)

\* The Sink-only configuration over an empty input: the Reader has closed
\* its channel, the terminal consumer waits on a channel nobody closes, and
\* BamToolbox waits for the completion signal for ever.
C2_StuckState ==
    /\ ResolvedKeys = <<"Sink">> /\ input.recs = <<>> /\ input.end = "eof"
    /\ status.code = "running" /\ main.pc = "wait" /\ stages = <<>>
    /\ reader.pc = "done" /\ term.pc = "recv"
    /\ ~chans[main.lastOut].closed
    /\ ~ENABLED Next

\* C3: once the Reader's decode has returned an error other than EOF, the
\* run ends in the fatal abort and BamToolbox never returns normally.
C3_DecodeErrorNeverReturns ==
    reader.pc = "checkError" => main.pc # "returned"

\* The Reader has closed its channel on a decode error and has not yet
\* reported it; the chain has drained and BamToolbox has returned normally.
C3_ReturnedState ==
    /\ input.end = "err" /\ reader.pc = "checkError"
    /\ status.code = "running" /\ main.pc = "returned"
    /\ Len(stages) >= 1 /\ Len(term.got) = Len(input.recs)

UnknownToolAbort ==
    /\ status.code = "fatal" /\ Len(status.diag) = 2
    /\ status.diag[1] = "Unknown tool:"

\* C4: when the run aborts on an unknown stage name, no stage task has been
\* launched, no stage has received a record and no stage has created a file.
C4_UnknownToolNothingRan ==
    UnknownToolAbort =>
        /\ stages = <<>>
        /\ out.files = {}
        /\ \A k \in DOMAIN stages : stages[k].got = <<>>

\* The unknown key follows a registered one: the earlier stage was launched
\* and has received a record by the time the abort happens.
C4_PartialRunState ==
    /\ UnknownToolAbort /\ status.diag[2] = "Bogus"
    /\ Len(stages) >= 1 /\ stages[1].got # <<>>

\* C5: for a configuration whose non-reserved keys are all registered, the
\* stages launched are, in order, the non-reserved keys: the k-th (from 0)
\* has Rank k and the sub-section keyed by its own name, Sink is never
\* launched, no unknown-tool abort happens, and once the launch loop is over
\* there is exactly one stage per non-reserved key.
C5_LaunchedInKeyOrder ==
    (main.pc # "parse" /\ Range(NonReserved) \subseteq NewToolshed) =>
        /\ Len(stages) <= Len(NonReserved)
        /\ \A k \in DOMAIN stages :
              /\ stages[k].name = NonReserved[k]
              /\ stages[k].Yaml = NonReserved[k]
              /\ stages[k].Rank = k - 1
        /\ ~UnknownToolAbort
        /\ main.pc \in {"wait", "returned"} => Len(stages) = Len(NonReserved)

C5_Witness ==
    /\ main.pc = "wait"
    /\ ResolvedKeys = <<"AlnContext", "Sink", "AccStats">>
    /\ Len(stages) = 2 /\ stages[2].Rank = 1

\* The records that have been sent on channel c, in order.
SentOn(c) ==
    IF c = reader.outChan
    THEN [i \in 1..(reader.pos - (IF reader.pc = "send" THEN 1 ELSE 0)) |-> i]
    ELSE IF \E j \in DOMAIN stages : stages[j].OutChan = c
         THEN stages[CHOOSE j \in DOMAIN stages : stages[j].OutChan = c].sent
         ELSE <<>>

C6_State ==
    \A k \in Filters \cup Aggregators :
        /\ stages[k].closes <= 1
        /\ stages[k].OutChan # NilChan =>
              (chans[stages[k].OutChan].closed <=> stages[k].closes = 1)
        /\ stages[k].closes = 1 =>
              /\ stages[k].InChan # NilChan
              /\ chans[stages[k].InChan].closed
              /\ chans[stages[k].InChan].buf = <<>>
              /\ stages[k].got = SentOn(stages[k].InChan)
              /\ stages[k].hold = 0
        /\ main.pc = "returned" => stages[k].closes = 1

C6_Step ==
    \A k \in DOMAIN stages :
        stages[k].closes = 1 =>
            /\ stages'[k].closes = 1
            /\ stages'[k].sent = stages[k].sent

\* C6: AlnContext and AccStats each close their output exactly once, only
\* when their input is closed and every record sent on it has been received
\* (and always by the time the run completes); after the close nothing more
\* is sent and the output is not closed again.
C6_CloseOnceWhenDrained == [](C6_State) /\ [][C6_Step]_vars

C6_Witness ==
    /\ Len(stages) = 2 /\ stages[1].closes = 1 /\ stages[2].closes = 1
    /\ Len(stages[1].got) = MaxRecs /\ main.pc = "returned"

\* The window of a side at coordinate at: whether it lies within the
\* contig, and the flank it covers.
WindowIn(at, p) ==
    /\ 0 <= at + p.leftShift
    /\ at + p.leftShift <= at + p.rightShift
    /\ at + p.rightShift <= Len(RefSeq)

Flank(at, p) == SubSeq(RefSeq, at + p.leftShift + 1, at + p.rightShift)

SideHit(pat, at, p) ==
    pat # <<>> /\ WindowIn(at, p) /\ MatchString(pat, Flank(at, p))

SideOob(pat, at, p) == pat # <<>> /\ ~WindowIn(at, p)

FlankHit(r, p) ==
    SideHit(p.regStart, r.Pos, p) \/ SideHit(p.regEnd, r.End, p)

\* The stage holds the record for its send, or has sent it.
Forwarded(k, r) == stages[k].hold = r \/ r \in Range(stages[k].sent)

\* The records the stage has received and finished deciding on: all but the
\* one whose lookup aborted the run.
Decided(k) ==
    IF status.code = "fatal" /\ status.diag = <<"AlnContext">>
    THEN Range(stages[k].got) \ {stages[k].got[Len(stages[k].got)]}
    ELSE Range(stages[k].got)

\* C7: AlnContext forwards a record if and only if no configured pattern
\* matches its flank: it drops the record when RegexStart is configured and
\* matches the flank at start, or RegexEnd is configured and matches the
\* flank at end; an absent pattern never causes a drop.
C7_ForwardIffNoFlankHit ==
    \A k \in Filters : \A r \in Decided(k) :
        /\ Forwarded(k, r) <=> ~FlankHit(RecOf(r), cfg.AlnContext)
        /\ r \in stages[k].dropped <=> FlankHit(RecOf(r), cfg.AlnContext)

C7_Witness ==
    /\ cfg.AlnContext.regStart # <<>> /\ cfg.AlnContext.regEnd # <<>>
    /\ \E k \in Filters :
          /\ stages[k].closes = 1
          /\ \E r \in stages[k].dropped : RecOf(r) = RecEndHit
          /\ \E r \in stages[k].dropped : RecOf(r) = RecStartHit
          /\ \E r \in Range(stages[k].sent) : RecOf(r) = RecPass

\* C8: for every record AlnContext receives and every side whose pattern
\* is configured, an out-of-bounds window of that side aborts the run: the
\* record is neither forwarded nor dropped, also when its start flank
\* matches RegexStart and it is the end window that is out of bounds.
C8_OutOfBoundsAborts ==
    \A k \in Filters : \A r \in Range(stages[k].got) :
        (\/ SideOob(cfg.AlnContext.regStart, RecOf(r).Pos, cfg.AlnContext)
         \/ SideOob(cfg.AlnContext.regEnd, RecOf(r).End, cfg.AlnContext))
        => /\ status.code = "fatal"
           /\ ~Forwarded(k, r)
           /\ r \notin stages[k].dropped

\* A record whose start flank matches RegexStart and whose end window is out
\* of bounds, with RegexEnd configured: dropped, and the run completes.
C8_SilentDropState ==
    /\ cfg.AlnContext.regStart # <<>> /\ cfg.AlnContext.regEnd # <<>>
    /\ status.code = "running" /\ main.pc = "returned"
    /\ \E k \in Filters : \E r \in stages[k].dropped :
          /\ RecOf(r) = RecStartHitEndOob
          /\ SideOob(cfg.AlnContext.regEnd, RecOf(r).End, cfg.AlnContext)

\* The aligned length M + I + D of a CIGAR.
RECURSIVE AlignedLen(_)
AlignedLen(cigar) ==
    IF cigar = <<>> THEN 0
    ELSE (IF Head(cigar)[1] \in {"M", "=", "X", "I", "D"} THEN Head(cigar)[2] ELSE 0)
         + AlignedLen(Tail(cigar))

\* Accuracy = (1 - E/L) * 100.
Accuracy(r) ==
    FMul(FSub(Float(1), FDiv(Float(r.NM.val), Float(AlignedLen(r.Cigar)))),
         Float(100))

\* The sums the claims state, over the mapped records of a sequence of records.
RECURSIVE SumLen(_)
SumLen(rs) ==
    IF rs = <<>> THEN 0
    ELSE (IF RecOf(Head(rs)).Unmapped THEN 0 ELSE AlignedLen(RecOf(Head(rs)).Cigar))
         + SumLen(Tail(rs))

RECURSIVE SumAcc(_)
SumAcc(rs) ==
    IF rs = <<>> THEN Float(0)
    ELSE LET t == SumAcc(Tail(rs))
         IN  IF RecOf(Head(rs)).Unmapped THEN t
             ELSE FAdd(Accuracy(RecOf(Head(rs))), t)

RECURSIVE SumWAcc(_)
SumWAcc(rs) ==
    IF rs = <<>> THEN Float(0)
    ELSE LET t == SumWAcc(Tail(rs))
             r == RecOf(Head(rs))
         IN  IF r.Unmapped THEN t
             ELSE FAdd(FMul(Accuracy(r), Float(AlignedLen(r.Cigar))), t)

CountMapped(rs) == Cardinality({i \in DOMAIN rs : ~RecOf(rs[i]).Unmapped})

SumsOver(rs) ==
    [totalLen |-> SumLen(rs), accSum |-> SumAcc(rs),
     wAccSum |-> SumWAcc(rs), nr |-> CountMapped(rs)]

\* What the stage has finished with: received, and sent or about to be sent.
Pending(k) == IF stages[k].hold = 0 THEN <<>> ELSE <<stages[k].hold>>

\* Two mapped records with CIGAR 10= and NM 1, and one unmapped record.
IsExample(rs) ==
    /\ Len(rs) = 3
    /\ Cardinality({i \in DOMAIN rs : RecOf(rs[i]) = RecPass}) = 2
    /\ Cardinality({i \in DOMAIN rs : RecOf(rs[i]) = RecUnmapped}) = 1

\* C9: AccStats forwards every record it receives, its accumulators are the
\* sums over the mapped records received (aligned length, count, accuracy,
\* accuracy times length), and the summary reports sum of accuracy / count
\* and weighted sum / aligned length sum; two mapped records 10= with NM 1
\* and one unmapped record give 90.0 twice, with three records forwarded.
C9_AccumulatorsAndMeans ==
    status.code # "panic" =>
        /\ \A k \in Aggregators :
              /\ stages[k].got = stages[k].sent \o Pending(k)
              /\ stages[k].acc = SumsOver(stages[k].got)
              /\ stages[k].closes = 1 => stages[k].sent = stages[k].got
        /\ \A i \in DOMAIN out.tsv :
              LET s == out.tsv[i]
                  t == SumsOver(s.after)
              IN  /\ s.sum.MeanAcc = FDiv(t.accSum, Float(t.nr))
                  /\ s.sum.WeightedAcc = FDiv(t.wAccSum, Float(t.totalLen))
                  /\ s.sum.line = <<Fmt3(s.sum.MeanAcc), Fmt3(s.sum.WeightedAcc)>>
                  /\ IsExample(s.after) =>
                        /\ s.sum.MeanAcc = Float(90)
                        /\ s.sum.WeightedAcc = Float(90)
                        /\ s.sum.line = <<<<90000, 1000>>, <<90000, 1000>>>>
                        /\ Len(stages[1].sent) = 3

C9_Witness ==
    /\ Len(out.tsv) = 1 /\ IsExample(out.tsv[1].after)
    /\ Len(term.got) = 3 /\ main.pc = "returned"

\* The chain AlnContext -> AccStats -> Sink.
ChainFilterAggregateSink ==
    /\ main.clearKeys = <<"AlnContext", "AccStats">>
    /\ term.kind = "sink"

\* C10: in the chain AlnContext -> AccStats -> Sink over N records, at most
\* N records pass AlnContext and AccStats emits at most one summary, exactly
\* one by the time the terminal consumer completes; when it is emitted
\* AlnContext has closed its output and AccStats has received every record
\* AlnContext forwarded, and the accumulators cover exactly the mapped
\* records among the records read that AlnContext did not drop.
C10_OneSummaryOverSurvivors ==
    ChainFilterAggregateSink =>
        /\ Len(stages) >= 1 => Len(stages[1].sent) <= Len(input.recs)
        /\ Len(out.tsv) <= 1
        /\ Completed => Len(out.tsv) = 1
        /\ out.tsv # <<>> =>
              /\ out.tsv[1].after = stages[2].got
              /\ stages[1].closes = 1
              /\ out.tsv[1].after = stages[1].sent
              /\ out.tsv[1].after =
                    SelectSeq([i \in 1..Len(input.recs) |-> i],
                              LAMBDA r : r \notin stages[1].dropped)
              /\ out.tsv[1].acc = SumsOver(out.tsv[1].after)

C10_Witness ==
    /\ ChainFilterAggregateSink /\ main.pc = "returned"
    /\ Len(out.tsv) = 1 /\ Len(input.recs) = 3
    /\ Len(out.tsv[1].after) = 2 /\ out.tsv[1].acc.nr = 1

\* C11: AccStats never divides by zero: whatever it has accumulated is a
\* finite number (a mapped record of aligned length 0 is rejected or given
\* a defined value), and a summary is computed only with a non-zero count
\* of mapped records and a non-zero aligned-length sum.
C11_NoZeroDenominator ==
    /\ \A k \in Aggregators :
          IsFin(stages[k].acc.accSum) /\ IsFin(stages[k].acc.wAccSum)
    /\ \A i \in DOMAIN out.tsv :
          /\ out.tsv[i].acc.nr # 0 /\ out.tsv[i].acc.totalLen # 0
          /\ IsFin(out.tsv[i].sum.MeanAcc)
          /\ IsFin(out.tsv[i].sum.WeightedAcc)

\* A summary of a stream without a mapped record; a mapped record of aligned
\* length 0 accumulated as a non-number.
C11_NaNSummaryState ==
    /\ \E i \in DOMAIN out.tsv :
          out.tsv[i].acc.nr = 0 /\ IsNaN(out.tsv[i].sum.MeanAcc)
    /\ main.pc = "returned"

C11_ZeroLengthState ==
    \E k \in Aggregators :
        /\ \E i \in DOMAIN stages[k].got : RecOf(stages[k].got[i]) = RecLenZero
        /\ ~IsFin(stages[k].acc.accSum)
        /\ status.code = "running"

BadTag(r) == GetSamMapped(r) /\ (~r.NM.present \/ ~r.NM.integer)

\* C12: a mapped record whose NM tag is missing or not an integer ends the
\* run when AccStats receives it: it is the last record received, it is not
\* forwarded, the accumulators are those of the records before it, and the
\* stage emits no summary; an unmapped record is forwarded, tag or no tag.
C12_BadTagAborts ==
    \A k \in Aggregators : \A i \in DOMAIN stages[k].got :
        LET id == stages[k].got[i]
        IN  /\ BadTag(RecOf(id)) =>
                  /\ status.code = "panic" /\ status.diag = <<"NM tag">>
                  /\ i = Len(stages[k].got)
                  /\ ~Forwarded(k, id)
                  /\ stages[k].acc = SumsOver(SubSeq(stages[k].got, 1, i - 1))
                  /\ \A j \in DOMAIN out.tsv : out.tsv[j].Rank # stages[k].Rank
            /\ ~GetSamMapped(RecOf(id)) => Forwarded(k, id)

C12_Witness ==
    /\ status.code = "panic"
    /\ \E k \in Aggregators :
          /\ Len(stages[k].got) = 3 /\ Len(stages[k].sent) = 2
          /\ RecOf(stages[k].got[1]) = RecUnmapped
          /\ RecOf(stages[k].got[2]) = RecPass
          /\ RecOf(stages[k].got[3]) = RecNoTag
          /\ stages[k].acc.nr = 1

Listed == out.listing # <<>>

\* C13: whenever the listing has been produced, no Reader has been started
\* and no Writer or Sink constructed, wherever the help key stands, and the
\* run has ended by the listing's exit, BamToolbox not having returned.
C13_ListingOpensNothing ==
    Listed =>
        /\ reader.pc = "none" /\ term.kind = "none"
        /\ status.code = "exit0" /\ main.pc # "returned"

\* The help key after a stage: the Reader has read from the input and the
\* Writer has been constructed when the listing is produced.
C13_StreamOpenedState ==
    /\ Listed /\ status.code = "exit0"
    /\ main.tkeys = <<"AccStats", "help">>
    /\ reader.pos >= 1 /\ term.kind = "writer"

\* C17: the listing is the two header lines followed by exactly one line
\* per registered stage, with its name and description, in ascending order
\* of name: AccStats, AlnContext, help.
C17_ListingSortedComplete ==
    Listed =>
        /\ Len(out.listing) = 2 + Cardinality(NewToolshed)
        /\ out.listing[1] = <<"Tool", "Description">>
        /\ out.listing[2] = <<"----", "-----------">>
        /\ [i \in 1..3 |-> out.listing[i + 2][1]]
              = <<"AccStats", "AlnContext", "help">>
        /\ out.listing[3][2] = "calculates mean accuracy weighted by aligment lengths"
        /\ out.listing[4][2] = "filter records by the sequence context at start and end"
        /\ out.listing[5][2] = "list all tools with description"

C17_Witness ==
    /\ Listed /\ status.code = "exit0" /\ main.tkeys = <<"help">>
    /\ reader.pc = "none"

SinkRequested == (\E i \in DOMAIN main.tkeys : main.tkeys[i] = "Sink") /\ cfg.Sink

LastStageClosed == stages # <<>> /\ stages[Len(stages)].closes = 1

\* C14: the terminal consumer is the Sink exactly when the key Sink is
\* present with value true, and the Writer otherwise; in Sink mode no
\* Writer is constructed, nothing is ever written, the records delivered
\* are taken and discarded, and once the last stage has closed its output
\* the run goes on until the completion signal has been sent.
C14_SinkIffRequested ==
    term.kind # "none" =>
        /\ term.kind = "sink" <=> SinkRequested
        /\ term.kind = "writer" <=> ~SinkRequested
        /\ term.kind = "sink" =>
              /\ out.written = <<>> /\ term.head = "none"
              /\ (LastStageClosed /\ main.pc = "wait" /\ Running) =>
                    ENABLED (TermRecv \/ TermEnd \/ Complete)
              /\ (LastStageClosed /\ main.pc \in {"wait", "returned"}) =>
                    chans[term.outChan].closed
              /\ (Completed /\ stages # <<>>) =>
                    term.got = stages[Len(stages)].sent

C14_Witness ==
    /\ term.kind = "sink" /\ main.pc = "returned" /\ SinkRequested
    /\ Len(term.got) = 2 /\ out.written = <<>> /\ Len(stages) = 2

\* C15: in Writer mode, for the standard output and for every named
\* destination, the Writer carries the input header, what has been encoded
\* to the destination is what has been delivered when the completion
\* signal is sent, and a write that fails ends the run in the fatal abort.
C15_WriterEncodesAll ==
    term.kind = "writer" =>
        /\ term.head = "input"
        /\ Completed => out.written = term.got

\* The named destination exists, so it is opened for reading only: the run
\* has completed, two records were delivered, none is in the destination.
C15_LostOutputState ==
    /\ term.kind = "writer" /\ cfg.outFile = "old.bam"
    /\ main.pc = "returned" /\ status.code = "running"
    /\ Len(term.got) = 2 /\ out.written = <<>>

\* The record channels of the run: the Reader's, the terminal consumer's
\* and those given to the stages.
RecordChans ==
    ({main.inChan, main.lastOut}
        \cup {stages[k].InChan : k \in DOMAIN stages}
        \cup {stages[k].OutChan : k \in DOMAIN stages}) \ {NilChan}

\* The records read and not yet written, discarded or dropped.
InFlight ==
    reader.pos - Len(term.got)
        - Cardinality(UNION {stages[k].dropped : k \in DOMAIN stages})

InFlightBound(n) == (n + 1) * chanCap + (n + 2)

\* C16: every record channel of the run has the capacity chanCap, and the
\* number of records in flight never exceeds (n+1)*chanCap + (n+2) for the
\* chain of n stages, however long the input.
C16_InFlightBounded ==
    /\ \A c \in RecordChans : chans[c].cap = chanCap
    /\ main.pc \in {"loop", "wait", "returned"} =>
          InFlight <= InFlightBound(Len(main.clearKeys))

\* One stage before the Writer: more records in flight than the bound.
C16_OverBoundState ==
    /\ term.kind = "writer" /\ Len(main.clearKeys) = 1 /\ Running
    /\ chans[main.lastOut].cap = ioBuff
    /\ InFlight > InFlightBound(1)

\* The launch loop is over and a stage other than the listing was launched.
LaunchDone ==
    /\ main.pc \in {"wait", "returned"}
    /\ \E k \in DOMAIN stages : stages[k].name # "help"

\* The chain is wired end to end: from the Reader's channel, each stage to
\* the next, to the terminal consumer's channel, all of them real channels
\* and no channel given twice as input or twice as output.
Wired ==
    LET n == Len(stages)
    IN  /\ reader.outChan # NilChan /\ term.outChan # NilChan
        /\ stages[1].InChan = reader.outChan
        /\ \A k \in 2..n : stages[k].InChan = stages[k - 1].OutChan
        /\ stages[n].OutChan = term.outChan
        /\ \A k \in 1..n : stages[k].InChan # NilChan /\ stages[k].OutChan # NilChan
        /\ \A j, k \in 1..n :
              j # k => /\ stages[j].InChan # stages[k].InChan
                       /\ stages[j].OutChan # stages[k].OutChan
        /\ \A k \in 1..n : stages[k].InChan # stages[k].OutChan

\* C18: in every run with at least one stage, once the stages are launched,
\* the chain is wired end to end: the first stage reads the Reader's
\* channel, each later stage the output of the one before, the last stage
\* writes the terminal consumer's channel, and no channel is orphaned or
\* shared.
C18_EveryRunWired == LaunchDone => Wired

\* The same for the runs whose first key is not help, which make the Reader
\* and the terminal consumer.
PipelineRunsWired ==
    (LaunchDone /\ main.tkeys[1] # "help") => Wired

\* A stage launched after the help key: its output is the nil channel.
C18_NilOutputState ==
    /\ main.tkeys = <<"help", "AccStats">> /\ main.pc = "wait"
    /\ Len(stages) = 2 /\ stages[2].OutChan = NilChan
    /\ stages[2].pc = "recv" /\ reader.pc = "none"

\* C19: a configuration that resolves to no top-level key, given directly
\* or through the Yaml key, ends in the orchestrator's fatal abort, with no
\* Reader started, no terminal consumer made and no stage launched; the run
\* never continues past the set-up and ends in no other way.
C19_EmptyConfigAborts ==
    ResolvedKeys = <<>> =>
        /\ main.pc \in {"parse", "setup"}
        /\ reader.pc = "none" /\ term.kind = "none" /\ stages = <<>>
        /\ ~Running => status.code = "fatal"

\* The empty document given directly: ty[0] is out of range.
C19_DirectPanicState ==
    /\ cfg.ty = <<>> /\ main.pc = "parse"
    /\ status = Ended("panic", <<"index out of range">>)

\* The empty document behind the Yaml key: the emptiness switch has looked
\* at the keys of the first document, and tkeys[0] is out of range.
C19_IndirectPanicState ==
    /\ cfg.ty = <<"Yaml">> /\ cfg.file = <<>> /\ main.pc = "setup"
    /\ status = Ended("panic", <<"index out of range">>)

\* The records of file f that the command has gone through.
RenameDoneIn(f) ==
    IF f < ren.fi THEN Len(ren.files[f].ids)
    ELSE IF f = ren.fi THEN ren.ri ELSE 0

\* The positions <<file, record>> gone through, in input order.
RenameProcessed ==
    LET P == {<<f, r>> \in (1..MaxFiles) \X (1..MaxFileRecs) :
                 f <= Len(ren.files) /\ r <= RenameDoneIn(f)}
        Before(a, b) == a[1] < b[1] \/ (a[1] = b[1] /\ a[2] < b[2])
    IN  [i \in 1..Cardinality(P) |->
            CHOOSE a \in P : Cardinality({b \in P : Before(b, a)}) = i - 1]

\* Which occurrence of its identifier, within its file, the record is.
Occurrence(at) ==
    LET ids == ren.files[at[1]].ids
    IN  Cardinality({j \in 1..at[2] : ids[j] = ids[at[2]]})

\* The identifier the record is to be written with: its own at the first
\* occurrence, X_k at the k-th.
RenamedID(at) ==
    LET id == ren.files[at[1]].ids[at[2]]
        k == Occurrence(at)
    IN  [base |-> id, n |-> IF k = 1 THEN 0 ELSE k]

\* C20: the rename command emits each record once and in input order, a
\* first occurrence under its own identifier and the k-th occurrence of X
\* as X_k, the occurrences being counted within each file.
C20_RenamedOnceInOrder ==
    ren.pc # "idle" =>
        /\ [i \in DOMAIN ren.outfh |-> ren.outfh[i].src] = RenameProcessed
        /\ \A i \in DOMAIN ren.outfh :
              ren.outfh[i].ID = RenamedID(ren.outfh[i].src)

\* A FASTA file X, X, Y: X is written with the empty identifier, and Y with
\* the identifier X_2 left from the record before.
C20_StaleIdState ==
    /\ ren.pc = "done" /\ Len(ren.files) = 1
    /\ ren.files[1] = [ids |-> <<"X", "X", "Y">>, Qual |-> FALSE]
    /\ [i \in DOMAIN ren.outfh |-> ren.outfh[i].ID]
          = <<EmptyID, SprintfID("X", 2), SprintfID("X", 2)>>

\* A FASTQ file of one record: the record is written twice.
C20_WrittenTwiceState ==
    /\ ren.pc = "done" /\ Len(ren.files) = 1
    /\ ren.files[1] = [ids |-> <<"X">>, Qual |-> TRUE]
    /\ [i \in DOMAIN ren.outfh |-> ren.outfh[i].fmt] = <<"fastq", "fasta">>

\* What the code does right: the second and later occurrences.
RenameSuffixRight ==
    \A i \in DOMAIN ren.outfh :
        Occurrence(ren.outfh[i].src) >= 2 =>
            ren.outfh[i].ID = RenamedID(ren.outfh[i].src)

====
